---------------------------- MODULE Spec2Model ----------------------------
(***************************************************************************)
(* State-machine model of the MCP host (src/mcp_host.py: dispatcher, tool  *)
(* registry, hello and git invokers, subprocess runner, main and the       *)
(* planner thread), of the hello tool server                               *)
(* (src/mcp_tools/hello/hello_server.py: the stdio JSON-RPC read loop) and *)
(* of the git client (src/mcp_tools/git/git_client.py: server launch,      *)
(* session lifecycle, command line).                                       *)
(*                                                                         *)
(* Python values are tagged records: field k names the Python type, and    *)
(* the payload lives in s (str), n (int), l (list of str) or d (dict).     *)
(* Python dicts with fixed value types (results, messages) are TLA+        *)
(* records whose DOMAIN is the set of keys present.                        *)
(***************************************************************************)
EXTENDS Integers, Sequences, FiniteSets, TLC

VARIABLES
    \* ---- host (src/mcp_host.py)
    fsFiles,      \* paths that exist as regular files
    fsDirs,       \* paths that exist as directories
    envTimeout,   \* os.environ.get("MCP_TOOL_TIMEOUT"): None or a str
    registry,     \* TOOL_REGISTRY: name -> invoker closure
    scans,        \* number of times discover_tools has run
    pc,           \* position of the current dispatch_stub call
    plan,         \* the Plan handed to dispatch_stub
    envelope,     \* what dispatch_stub returned: {plan, result}
    exc,          \* exception that escaped dispatch_stub ("" when none)
    candidates,   \* hello invoker: candidate argv list
    idx,          \* hello invoker: index of the candidate being tried
    last_err,     \* hello invoker: last failure record (None at start)
    timeout_sec,  \* deadline of the current invocation
    spawned,      \* argv of every subprocess.run call of this dispatch, in order
    live,         \* positions in spawned whose child process is still running
    lastExit,     \* how the latest subprocess.run call ended ("none" before)
    nDispatch,    \* dispatch_stub calls made so far
    failed,       \* tools whose invoker has had a failed invocation (history)
    \* ---- host command line (src/mcp_host.py: main and the planner)
    mpc,          \* position of main ("off": main is not running)
    ollamaOk,     \* whether `import ollama` succeeded
    worker,       \* planner thread: none / running / returned / raised
    slot,         \* the cells the planner thread writes: result and err["exc"]
    mainExc,      \* exception that escaped main ("" when none)
    printed,      \* the envelope main printed
    \* ---- hello server (src/mcp_tools/hello/hello_server.py)
    spc,          \* server position: running / eof / crashed
    inLog,        \* lines read from stdin so far
    outLog,       \* lines written to stdout: input position and message
    \* ---- git client (src/mcp_tools/git/git_client.py)
    cpc,          \* position of the client: off / new / handshaking / ready /
                  \* exiting / closed / failed
    cliRun,       \* index in CliRuns of the command line being run
    held,         \* whether self._stack and self.session are set
    child,        \* the server process: none / running / exited / terminated
    streams,      \* the stdio transport: none / open / closed
    wire,         \* requests the session was asked to send, in order
    cliRc,        \* how _run_cli ended: none / "0" / "2" / raised
    late,         \* calls made on the client after __aexit__: count and outcome
    srv,          \* --server-cmd ("" when absent), --server-args and the
                  \* executables shutil.which finds
    launch        \* the (command, args) _connect launches the server with

hostVars == <<fsFiles, fsDirs, envTimeout, registry, scans, pc, plan, envelope,
              exc, candidates, idx, last_err, timeout_sec, spawned, live,
              lastExit, nDispatch, failed>>
mainVars == <<mpc, ollamaOk, worker, slot, mainExc, printed>>
serverVars == <<spc, inLog, outLog>>
sessionVars == <<cpc, cliRun, held, child, streams, wire, cliRc, late>>
launchVars == <<srv, launch>>
vars == <<hostVars, mainVars, serverVars, sessionVars, launchVars>>

\* ------------------------------------------------------------------ bounds
MaxDispatch == 2
MaxLines == 2
MaxLate == 2

\* ----------------------------------------------------------- Python values
None == [k |-> "none"]
PStr(s) == [k |-> "str", s |-> s]
PInt(n) == [k |-> "int", n |-> n]
PList(l) == [k |-> "list", l |-> l]
PDict(d) == [k |-> "dict", d |-> d]
EmptyDict == [key \in {} |-> None]

\* bool(v)
Truthy(v) ==
    CASE v.k = "none" -> FALSE
      [] v.k = "str"  -> v.s /= ""
      [] v.k = "int"  -> v.n /= 0
      [] v.k = "list" -> v.l /= <<>>
      [] v.k = "dict" -> DOMAIN v.d /= {}

\* a or b
Or(a, b) == IF Truthy(a) THEN a ELSE b

\* d.get(key) and d.get(key, default) on a dict payload
Get(d, key) == IF key \in DOMAIN d THEN d[key] ELSE None
GetDefault(d, key, default) == IF key \in DOMAIN d THEN d[key] ELSE default

\* str(n) for the integers the model uses
IntStr(n) ==
    CASE n = 0 -> "0" [] n = 1 -> "1" [] n = 2 -> "2" [] n = 3 -> "3"
      [] n = 5 -> "5" [] n = 8 -> "8" [] n = 10 -> "10" [] n = 20 -> "20"
      [] OTHER -> "<int>"

\* str(float(n)): the timeout is a float
FloatStr(n) == IntStr(n) \o ".0"

RECURSIVE ReprItems(_)
ReprItems(l) ==
    IF l = <<>> THEN ""
    ELSE "'" \o Head(l) \o "'" \o
         (IF Len(l) = 1 THEN "" ELSE ", " \o ReprItems(Tail(l)))

\* str(v)
Str(v) ==
    CASE v.k = "none" -> "None"
      [] v.k = "str"  -> v.s
      [] v.k = "int"  -> IntStr(v.n)
      [] v.k = "list" -> "[" \o ReprItems(v.l) \o "]"
      [] v.k = "dict" -> IF DOMAIN v.d = {} THEN "{}" ELSE "{...}"

\* int(v): [ok, n] or the exception raised
ParseInt(v) ==
    CASE v.k = "int" -> [ok |-> TRUE, n |-> v.n, exc |-> ""]
      [] v.k = "str" ->
            IF v.s = "3" THEN [ok |-> TRUE, n |-> 3, exc |-> ""]
            ELSE IF v.s = "5" THEN [ok |-> TRUE, n |-> 5, exc |-> ""]
            ELSE [ok |-> FALSE, n |-> 0, exc |-> "ValueError"]
      [] OTHER -> [ok |-> FALSE, n |-> 0, exc |-> "TypeError"]

\* float(s) of the timeout string
ParseFloat(s) ==
    CASE s = "8"  -> [ok |-> TRUE, n |-> 8, exc |-> ""]
      [] s = "20" -> [ok |-> TRUE, n |-> 20, exc |-> ""]
      [] s = "2"  -> [ok |-> TRUE, n |-> 2, exc |-> ""]
      [] OTHER    -> [ok |-> FALSE, n |-> 0, exc |-> "ValueError"]

\* s.strip() of the child outputs the model uses
Strip(s) ==
    CASE s = " hi\n" -> "hi"
      [] s = "boom\n" -> "boom"
      [] s = "{\"a\": 1}\n" -> "{\"a\": 1}"
      [] OTHER -> s

\* json.loads(out) if out else None, any failure giving None
JsonOrNone(out) ==
    IF out = "{\"a\": 1}" THEN PDict([a |-> PInt(1)]) ELSE None

\* json.dumps of a value that is not a container
JsonScalar(v) ==
    CASE v.k = "str"  -> "\"" \o v.s \o "\""
      [] v.k = "int"  -> IntStr(v.n)
      [] v.k = "none" -> "null"
      [] OTHER        -> "<json>"

\* json.dumps(v, ensure_ascii=False) of the payloads the model uses: a dict
\* is empty or holds the one key repo_path
JsonDumps(v) ==
    CASE v.k = "dict" ->
            IF DOMAIN v.d = {} THEN "{}"
            ELSE IF DOMAIN v.d = {"repo_path"}
                 THEN "{\"repo_path\": " \o JsonScalar(v.d.repo_path) \o "}"
                 ELSE "{<json>}"
      [] v.k = "list" -> IF v.l = <<>> THEN "[]" ELSE "[<json>]"
      [] OTHER        -> JsonScalar(v)


\* -------------------------------------------------------------- filesystem
\* Paths are relative to the directory of mcp_host.py (base_dir).
Join(a, b) == a \o "/" \o b
ToolsRoot == "mcp_tools"
HelloDir == Join(ToolsRoot, "hello")
GitDir == Join(ToolsRoot, "git")
HelloFiles == {Join(HelloDir, "hello_client.py"), Join(HelloDir, "hello_client"),
               Join(HelloDir, "hello.sh")}
GitNested == Join(Join(ToolsRoot, "git"), "git_client.py")
GitAlt == Join(ToolsRoot, "git_client.py")

\* Path.exists() / Path.is_dir()
Exists(p) == p \in fsFiles \cup fsDirs
IsDir(p) == p \in fsDirs

\* A file or directory exists only inside an existing directory.
FsConsistent(files, dirs) ==
    /\ files \cap dirs = {}
    /\ (files \cup dirs) /= {} => ToolsRoot \in dirs
    /\ (files \cap HelloFiles) /= {} => HelloDir \in dirs
    /\ GitNested \in files => GitDir \in dirs

\* ------------------------------------------------------------ tool registry
HelloInvoker(tool_dir) == [kind |-> "hello", tool_dir |-> tool_dir]
GitInvoker(tool_dir) == [kind |-> "git", tool_dir |-> tool_dir]

\* TOOL_REGISTRY[name] = inv
Register(reg, name, inv) ==
    [key \in DOMAIN reg \cup {name} |-> IF key = name THEN inv ELSE reg[key]]

\* discover_tools(): the registry after one scan
discover_tools(reg) ==
    IF ~Exists(ToolsRoot) THEN reg
    ELSE LET r1 == IF Exists(HelloDir) /\ IsDir(HelloDir)
                   THEN Register(reg, "hello", HelloInvoker(HelloDir))
                   ELSE reg
         IN  IF Exists(GitDir)
             THEN Register(r1, "git", GitInvoker(ToolsRoot))
             ELSE r1

\* Mutant of NeedsScan: every call scans again.
NeedsScanAlways(reg) == TRUE

\* ensure_discovered(): scans only while the registry is empty
NeedsScan(reg) == DOMAIN reg = {}
ensure_discovered(reg) == IF NeedsScan(reg) THEN discover_tools(reg) ELSE reg

\* ------------------------------------------------------- subprocess runner
PythonExe == "python"

\* What a started child can do before the deadline: exit code and raw output.
ChildExits ==
    << [rc |-> 0, out |-> " hi\n", err |-> ""],
       [rc |-> 1, out |-> "", err |-> "boom\n"],
       [rc |-> 0, out |-> "{\"a\": 1}\n", err |-> ""] >>

\* Popen started child number i: it is running.
Started(l, i) == l \cup {i}

\* The child exited by itself and subprocess.run collected it.
Reaped(l, i) == l \ {i}

\* Mutant of Killed: the child that ran past the deadline is left running.
KilledNot(l, i) == l

\* subprocess.run's deadline handling: the child is killed and waited for
\* before TimeoutExpired is raised.
Killed(l, i) == l \ {i}

\* How a subprocess.run call ended, as recorded in lastExit.
ExitTag(rc) == IF rc = 0 THEN "exit0" ELSE "exitN"

\* ----------------------------------------------------------- hello invoker
HelloDefaultTimeout == "8"
GitDefaultTimeout == "20"

\* float(os.environ.get("MCP_TOOL_TIMEOUT", default))
EnvTimeout(default) ==
    ParseFloat(IF envTimeout.k = "none" THEN default ELSE envTimeout.s)

\* str(args.get("text") or args.get("message") or args.get("name") or "hello")
HelloMessage(d) ==
    Str(Or(Or(Or(Get(d, "text"), Get(d, "message")), Get(d, "name")), PStr("hello")))

\* The candidate commands, in the order the invoker appends them.
HelloCandidates(tool_dir, message) ==
    LET py_client == Join(tool_dir, "hello_client.py")
        bin_client == Join(tool_dir, "hello_client")
        sh_client == Join(tool_dir, "hello.sh")
    IN  (IF Exists(py_client)
         THEN << <<PythonExe, py_client, "--message", message>>,
                 <<PythonExe, py_client, message>> >>
         ELSE <<>>)
        \o (IF Exists(bin_client)
            THEN << <<bin_client, "--message", message>>,
                    <<bin_client, message>> >>
            ELSE <<>>)
        \o (IF Exists(sh_client)
            THEN << <<"bash", sh_client, "--message", message>>,
                    <<"bash", sh_client, message>> >>
            ELSE <<>>)

\* The "not found" result when no candidate file exists.
HelloNotFound(tool_dir) ==
    [ok |-> FALSE, error |-> PStr("Hello tool not found"),
     searched |-> <<Join(tool_dir, "hello_client.py"),
                    Join(tool_dir, "hello_client"),
                    Join(tool_dir, "hello.sh")>>]

\* The result returned when a candidate exits with code zero.
HelloSuccess(cmd, o, ts) ==
    [ok |-> TRUE, returncode |-> 0, stdout |-> Strip(o.out),
     stderr |-> Strip(o.err), command |-> cmd, timed_out |-> FALSE,
     timeout_sec |-> ts]

\* last_err after a candidate exits with a non-zero code.
HelloNonZero(cmd, o, ts) ==
    [ok |-> FALSE, returncode |-> o.rc, stdout |-> Strip(o.out),
     stderr |-> Strip(o.err), command |-> cmd, timed_out |-> FALSE,
     timeout_sec |-> ts]

\* last_err after subprocess.TimeoutExpired.
HelloTimedOut(cmd, ts) ==
    [ok |-> FALSE, error |-> PStr("timeout after " \o FloatStr(ts) \o "s"),
     command |-> cmd, timed_out |-> TRUE, timeout_sec |-> ts]

\* last_err after any other exception of subprocess.run (the child never ran).
HelloStartError(cmd) ==
    [ok |-> FALSE, error |-> PStr("could not start"), command |-> cmd]

\* Mutant of HelloStops: the loop goes on to the next candidate after a success.
HelloStopsNever(rc) == FALSE

\* Whether the loop returns on this exit code instead of trying the next one.
HelloStops(rc) == rc = 0

\* The result once every candidate has failed:
\* {"ok": False, "error": last_err or "Unknown error while invoking hello tool"}
HelloAllFailed(le) ==
    [ok |-> FALSE,
     error |-> Or(le, PStr("Unknown error while invoking hello tool"))]

\* ------------------------------------------------------------- git invoker
\* What the code before the first subprocess.run decides:
\* raise an exception, return a result without spawning, or run an argv.
Raise(e) == [t |-> "raise", exc |-> e, result |-> [ok |-> FALSE], argv |-> <<>>]
Return(r) == [t |-> "return", exc |-> "", result |-> r, argv |-> <<>>]
Run(argv) == [t |-> "run", exc |-> "", result |-> [ok |-> FALSE], argv |-> argv]

\* A validation failure: ok=false and an error text, no command.
GitReject(msg) == Return([ok |-> FALSE, error |-> PStr(msg)])

\* str(int(args.get("context_lines", 3))) and str(int(args.get("max_count", 10)))
ContextLines(d) == ParseInt(GetDefault(d, "context_lines", PInt(3)))
MaxCount(d) == ParseInt(GetDefault(d, "max_count", PInt(10)))

\* map(str, files): iterating anything but a list of names raises TypeError
FilesIterable(files) == files.k = "list"

\* commit: the message is required
GitCommit(d) ==
    LET msg == Str(Or(Get(d, "message"), PStr("")))
    IN  IF msg = "" THEN GitReject("'commit' requires 'message'")
        ELSE Run(<<"commit", "--message", msg>>)

\* add: a non-empty files list is required
GitAdd(d) ==
    LET files == Or(Get(d, "files"), PList(<<>>))
    IN  IF ~Truthy(files) THEN GitReject("'add' requires 'files' list")
        ELSE IF ~FilesIterable(files) THEN Raise("TypeError")
        ELSE Run(<<"add", "--files">> \o files.l)

\* create-branch: the name is required, the start point optional
GitCreateBranch(d) ==
    LET name == Str(Or(Or(Get(d, "name"), Get(d, "branch_name")), PStr("")))
        sp == Or(Get(d, "start_point"), Get(d, "start-point"))
    IN  IF name = "" THEN GitReject("'create-branch' requires 'name'")
        ELSE Run(<<"create-branch", "--name", name>>
                 \o (IF Truthy(sp) THEN <<"--start-point", Str(sp)>> ELSE <<>>))

\* checkout: the name is required
GitCheckout(d) ==
    LET name == Str(Or(Or(Get(d, "name"), Get(d, "branch_name")), PStr("")))
    IN  IF name = "" THEN GitReject("'checkout' requires 'name'")
        ELSE Run(<<"checkout", "--name", name>>)

GitBranch(d) ==
    LET bt == Str(Or(Get(d, "branch_type"), PStr("local")))
        contains == Get(d, "contains")
        not_contains == Get(d, "not_contains")
    IN  Run(<<"branch", "--type", bt>>
            \o (IF Truthy(contains) THEN <<"--contains", Str(contains)>> ELSE <<>>)
            \o (IF Truthy(not_contains)
                THEN <<"--not-contains", Str(not_contains)>> ELSE <<>>))

GitDiffLike(verb, d) ==
    LET c == ContextLines(d)
    IN  IF ~c.ok THEN Raise(c.exc)
        ELSE Run(<<verb, "--context-lines", IntStr(c.n)>>)

GitDiff(d) ==
    LET target == Str(Or(Or(Get(d, "target"), Get(d, "revision")), PStr("HEAD")))
        c == ContextLines(d)
    IN  IF ~c.ok THEN Raise(c.exc)
        ELSE Run(<<"diff", "--target", target, "--context-lines", IntStr(c.n)>>)

GitLog(d) ==
    LET mc == MaxCount(d)
    IN  IF ~mc.ok THEN Raise(mc.exc)
        ELSE Run(<<"log", "--max-count", IntStr(mc.n)>>)

GitCall(d) ==
    LET tool == Str(Or(Get(d, "tool"), PStr("")))
        payload == Or(Get(d, "json"), PDict(EmptyDict))
    IN  Run(<<"call", "--tool", tool, "--json", JsonDumps(payload)>>)

\* "Map cmd to CLI": the argv tail of each logical command
GitMapCmd(cmd, d) ==
    CASE cmd = "status"        -> Run(<<"status">>)
      [] cmd = "diff-unstaged" -> GitDiffLike("diff-unstaged", d)
      [] cmd = "diff-staged"   -> GitDiffLike("diff-staged", d)
      [] cmd = "diff"          -> GitDiff(d)
      [] cmd = "add"           -> GitAdd(d)
      [] cmd = "reset"         -> Run(<<"reset">>)
      [] cmd = "commit"        -> GitCommit(d)
      [] cmd = "log"           -> GitLog(d)
      [] cmd = "create-branch" -> GitCreateBranch(d)
      [] cmd = "checkout"      -> GitCheckout(d)
      [] cmd = "show"          ->
            Run(<<"show", "--revision", Str(Or(Get(d, "revision"), PStr("HEAD")))>>)
      [] cmd = "init"          -> Run(<<"init">>)
      [] cmd = "branch"        -> GitBranch(d)
      [] cmd = "call"          -> GitCall(d)
      [] OTHER -> Return([ok |-> FALSE, error |-> PStr("unsupported git cmd: " \o cmd)])

\* Locate the python client: tool_dir/git/git_client.py, else tool_dir/git_client.py
GitClientPath(tool_dir) ==
    LET py_client == Join(Join(tool_dir, "git"), "git_client.py")
        alt == Join(tool_dir, "git_client.py")
    IN  IF Exists(py_client) THEN py_client
        ELSE IF Exists(alt) THEN alt ELSE py_client

\* The git invoker up to its subprocess.run call.
GitPrelude(tool_dir, args) ==
    LET ts == EnvTimeout(GitDefaultTimeout)
    IN  IF ~ts.ok THEN Raise(ts.exc)
        ELSE IF args.k /= "dict" THEN Raise("AttributeError")
        ELSE LET d == args.d
                 repo == Str(Or(Or(Get(d, "repo"), Get(d, "repo_path")), PStr(".")))
                 cmd == Str(Or(Get(d, "cmd"), PStr("status")))
                 py_client == GitClientPath(tool_dir)
                 base == <<PythonExe, py_client, "--repo", repo>>
                 m == GitMapCmd(cmd, d)
             IN  IF ~Exists(py_client)
                 THEN Return([ok |-> FALSE,
                              error |-> PStr("Git client not found at " \o py_client)])
                 ELSE IF m.t = "run" THEN Run(base \o m.argv) ELSE m

\* run(argv): the result of a child that exited
GitRunExit(argv, o, ts) ==
    [ok |-> (o.rc = 0), returncode |-> o.rc, stdout |-> Strip(o.out),
     stderr |-> Strip(o.err), json |-> JsonOrNone(Strip(o.out)),
     command |-> argv, timed_out |-> FALSE, timeout_sec |-> ts]

\* Mutant of GitRunTimeout: the timed-out run is reported as a success.
GitRunTimeoutOk(argv, ts) ==
    [ok |-> TRUE, error |-> PStr("timeout after " \o FloatStr(ts) \o "s"),
     command |-> argv, timed_out |-> TRUE, timeout_sec |-> ts]

\* run(argv): the result after subprocess.TimeoutExpired
GitRunTimeout(argv, ts) ==
    [ok |-> FALSE, error |-> PStr("timeout after " \o FloatStr(ts) \o "s"),
     command |-> argv, timed_out |-> TRUE, timeout_sec |-> ts]

\* run(argv): the result after any other exception of subprocess.run
GitRunError(argv) ==
    [ok |-> FALSE, error |-> PStr("could not start"), command |-> argv]

\* The hello invoker up to its first subprocess.run call; Run carries the
\* whole candidate list.
HelloPrelude(tool_dir, args) ==
    IF args.k /= "dict" THEN Raise("AttributeError")
    ELSE LET ts == EnvTimeout(HelloDefaultTimeout)
             cands == HelloCandidates(tool_dir, HelloMessage(args.d))
         IN  IF ~ts.ok THEN Raise(ts.exc)
             ELSE IF cands = <<>> THEN Return(HelloNotFound(tool_dir))
             ELSE Run(cands)

\* -------------------------------------------------------------- dispatcher
\* target == "<name>"
TargetIs(target, name) == target.k = "str" /\ target.s = name

BuiltinTargets == {"cve", "pfcm", "product_options", "inspector"}
ToolTargets == {"hello", "git"}
IsBuiltin(target) == \E b \in BuiltinTargets : TargetIs(target, b)
IsTool(target) == \E t \in ToolTargets : TargetIs(target, t)

\* Mutant of BuiltinResult: every pseudo-target answers with a bare status.
BuiltinResultBare(target, args) == [status |-> "ok"]

\* The mocked results of the built-in pseudo-targets.
BuiltinResult(target, args) ==
    CASE TargetIs(target, "cve") -> [affected |-> FALSE, checked |-> args]
      [] TargetIs(target, "pfcm") -> [status |-> "ok", changes |-> <<"PCD:X=1">>]
      [] TargetIs(target, "product_options") ->
            [status |-> "ok", message |-> "product options queried", args |-> args]
      [] TargetIs(target, "inspector") ->
            [status |-> "ok", checks |-> <<"env", "network", "permissions">>]

\* Mutant of Unsupported: the result forgets which target was asked for.
UnsupportedDropsTarget(target) == [status |-> "unsupported_target", target |-> None]

\* The final else branch of dispatch_stub.
Unsupported(target) == [status |-> "unsupported_target", target |-> target]

\* hello / git branch when TOOL_REGISTRY.get(name) is None.
NotInRegistry(name) ==
    [ok |-> FALSE, error |-> PStr(name \o " tool not found in registry")]

\* inv(args): the registered invoker up to its first subprocess.run call
Invoke(inv, args) ==
    IF inv.kind = "hello" THEN HelloPrelude(inv.tool_dir, args)
    ELSE GitPrelude(inv.tool_dir, args)

\* dispatch_stub's branch on target, given the registry after ensure_discovered.
DispatchBranch(target, args, reg) ==
    IF IsBuiltin(target) THEN Return(BuiltinResult(target, args))
    ELSE IF IsTool(target)
         THEN IF target.s \in DOMAIN reg
              THEN Invoke(reg[target.s], args)
              ELSE Return(NotInRegistry(target.s))
    ELSE Return(Unsupported(target))

\* ------------------------------------------------------------------- plans
Intent == PStr("do_thing")
Plan(target, args) == [intent |-> Intent, target |-> PStr(target), args |-> args]
\* A Plan whose "args" key is absent: plan.get("args", {}) gives {}.
PlanNoArgs(target) == [intent |-> Intent, target |-> PStr(target)]
\* A Plan whose "target" key is absent: plan.get("target") gives None.
PlanNoTarget == [intent |-> Intent, args |-> PDict(EmptyDict)]

NonMapping == PList(<<"x">>)

HelloArgs ==
    << None, NonMapping, PDict(EmptyDict),
       PDict([text |-> PStr("hi")]),
       PDict([text |-> PStr(""), name |-> PStr("bob")]),
       PDict([message |-> PInt(5)]) >>

GitArgs ==
    << None, NonMapping, PDict(EmptyDict),
       PDict([repo |-> PStr("/r"), cmd |-> PStr("status")]),
       PDict([cmd |-> PStr("diff-unstaged")]),
       PDict([cmd |-> PStr("diff-staged"), context_lines |-> PStr("abc")]),
       PDict([cmd |-> PStr("diff"), target |-> PStr("main"), context_lines |-> PInt(5)]),
       PDict([cmd |-> PStr("diff"), context_lines |-> None]),
       PDict([cmd |-> PStr("add")]),
       PDict([cmd |-> PStr("add"), files |-> PList(<<>>)]),
       PDict([cmd |-> PStr("add"), files |-> PList(<<"a.txt", "b.txt">>)]),
       PDict([cmd |-> PStr("add"), files |-> PInt(5)]),
       PDict([cmd |-> PStr("reset")]),
       PDict([cmd |-> PStr("commit")]),
       PDict([cmd |-> PStr("commit"), message |-> PStr("")]),
       PDict([cmd |-> PStr("commit"), message |-> PStr("feat")]),
       PDict([cmd |-> PStr("log")]),
       PDict([cmd |-> PStr("log"), max_count |-> PStr("abc")]),
       PDict([cmd |-> PStr("create-branch")]),
       PDict([cmd |-> PStr("create-branch"), branch_name |-> PStr("dev"),
              start_point |-> PStr("main")]),
       PDict([cmd |-> PStr("checkout")]),
       PDict([cmd |-> PStr("checkout"), name |-> PStr("")]),
       PDict([cmd |-> PStr("checkout"), name |-> PStr("dev")]),
       PDict([cmd |-> PStr("show")]),
       PDict([cmd |-> PStr("init")]),
       PDict([cmd |-> PStr("branch"), contains |-> PStr("abc123")]),
       PDict([cmd |-> PStr("call"), tool |-> PStr("git_status")]),
       PDict([cmd |-> PStr("call"), tool |-> PStr("git_log"),
              json |-> PDict([repo_path |-> PStr(".")])]),
       PDict([cmd |-> PStr("frobnicate")]) >>

OtherPlans ==
    << PlanNoTarget, PlanNoArgs("nope"), Plan("nope", None),
       [intent |-> Intent, target |-> PInt(5), args |-> PDict(EmptyDict)],
       PlanNoArgs("cve"), Plan("cve", PDict([id |-> PStr("CVE-1")])),
       Plan("pfcm", None), Plan("product_options", NonMapping),
       Plan("inspector", PDict(EmptyDict)),
       PlanNoArgs("hello"), PlanNoArgs("git") >>

\* Every Plan the model hands to dispatch_stub.
PlanTable ==
    OtherPlans
    \o [i \in 1..Len(HelloArgs) |-> Plan("hello", HelloArgs[i])]
    \o [i \in 1..Len(GitArgs) |-> Plan("git", GitArgs[i])]

\* ------------------------------------------------------------ host: state
NoEnvelope == [none |-> TRUE]

\* MCP_TOOL_TIMEOUT: unset, a number, or text float() rejects
EnvValues == << None, PStr("2"), PStr("abc") >>

AllPaths == {ToolsRoot, HelloDir, GitDir, GitNested, GitAlt} \cup HelloFiles

HostInit ==
    /\ fsDirs \in SUBSET {ToolsRoot, HelloDir, GitDir}
    /\ fsFiles \in SUBSET (AllPaths \ {ToolsRoot})
    /\ FsConsistent(fsFiles, fsDirs)
    /\ \E i \in 1..Len(EnvValues) : envTimeout = EnvValues[i]
    /\ registry = EmptyDict
    /\ scans = 0
    /\ pc = "idle"
    /\ plan = PlanTable[1]
    /\ envelope = NoEnvelope
    /\ exc = ""
    /\ candidates = <<>>
    /\ idx = 0
    /\ last_err = None
    /\ timeout_sec = 0
    /\ spawned = <<>>
    /\ live = {}
    /\ lastExit = "none"
    /\ nDispatch = 0
    /\ failed = {}

\* The tool side (hello server, git client) is untouched.
ServerIdle == UNCHANGED <<serverVars, sessionVars, launchVars>>
SessionIdle == UNCHANGED <<sessionVars, launchVars>>
MainIdle == UNCHANGED mainVars

\* ---------------------------------------------------------- host: actions
\* Mutant of Envelope: the envelope carries another Plan than the one given.
EnvelopeOtherPlan(p, result) == [plan |-> PlanNoTarget, result |-> result]

\* dispatch_stub returns {"plan": plan, "result": result}
Envelope(p, result) == [plan |-> p, result |-> result]

\* ensure_discovered() called on its own (main does so before planning).
EnsureDiscovered ==
    /\ pc = "idle"
    /\ scans < MaxDispatch
    /\ registry' = ensure_discovered(registry)
    /\ scans' = IF NeedsScan(registry) THEN scans + 1 ELSE scans
    /\ UNCHANGED <<fsFiles, fsDirs, envTimeout, pc, plan, envelope, exc,
                   candidates, idx, last_err, timeout_sec, spawned, live,
                   lastExit, nDispatch, failed>>
    /\ ServerIdle
    /\ MainIdle

\* dispatch_stub(plan) up to its return, its raise, or the first
\* subprocess.run call of the invoker it routes to.
dispatch_stub(p) ==
    LET target == Get(p, "target")
        args == GetDefault(p, "args", PDict(EmptyDict))
        reg == IF IsTool(target) THEN ensure_discovered(registry) ELSE registry
        step == DispatchBranch(target, args, reg)
    IN  /\ pc = "idle"
        /\ plan' = p
        /\ registry' = reg
        /\ scans' = IF IsTool(target) /\ NeedsScan(registry)
                    THEN scans + 1 ELSE scans
        /\ nDispatch' = nDispatch + 1
        /\ idx' = IF step.t = "run" THEN 1 ELSE 0
        /\ candidates' = IF step.t /= "run" THEN <<>>
                         ELSE IF TargetIs(target, "hello") THEN step.argv
                         ELSE <<step.argv>>
        /\ timeout_sec' = IF step.t /= "run" THEN 0
                          ELSE IF TargetIs(target, "hello")
                               THEN EnvTimeout(HelloDefaultTimeout).n
                               ELSE EnvTimeout(GitDefaultTimeout).n
        /\ pc' = CASE step.t = "return" -> "done"
                   [] step.t = "raise" -> "raised"
                   [] step.t = "run" ->
                         IF TargetIs(target, "hello") THEN "hello_try"
                         ELSE "git_try"
        /\ exc' = step.exc
        /\ envelope' = IF step.t = "return" THEN Envelope(p, step.result)
                       ELSE NoEnvelope
        /\ UNCHANGED <<fsFiles, fsDirs, envTimeout, last_err, spawned, live, lastExit,
                       failed>>
        /\ ServerIdle

\* dispatch_stub called on its own with any Plan of the table.
Dispatch ==
    /\ nDispatch < MaxDispatch
    /\ \E i \in 1..Len(PlanTable) : dispatch_stub(PlanTable[i])
    /\ MainIdle

\* The invocation that just ended was a failed one: its last child exited
\* with a non-zero code, ran past the deadline or could not be started.
InvocationFailed == lastExit \in {"exitN", "timeout", "failed"}

\* The caller takes what dispatch_stub returned or raised (main prints the
\* envelope); the next call starts from a clean frame.
Collect ==
    /\ pc \in {"done", "raised"}
    /\ live = {}
    /\ pc' = "idle"
    /\ plan' = PlanTable[1]
    /\ envelope' = NoEnvelope
    /\ exc' = ""
    /\ candidates' = <<>>
    /\ idx' = 0
    /\ last_err' = None
    /\ timeout_sec' = 0
    /\ spawned' = <<>>
    /\ lastExit' = "none"
    /\ failed' = IF InvocationFailed THEN failed \cup {Get(plan, "target").s}
                  ELSE failed
    /\ UNCHANGED <<fsFiles, fsDirs, envTimeout, registry, scans, live, nDispatch>>
    /\ ServerIdle
    /\ MainIdle

\* The hello loop moves to the next candidate, or returns once all failed.
HelloAdvance(le) ==
    /\ last_err' = le
    /\ IF idx = Len(candidates)
       THEN /\ pc' = "done"
            /\ envelope' = Envelope(plan, HelloAllFailed(le))
            /\ idx' = idx
       ELSE /\ pc' = "hello_try"
            /\ envelope' = envelope
            /\ idx' = idx + 1

\* subprocess.run(cmd, ...) starts the child of the current candidate.
HelloSpawn ==
    /\ pc = "hello_try"
    /\ spawned' = Append(spawned, candidates[idx])
    /\ live' = Started(live, Len(spawned) + 1)
    /\ pc' = "hello_wait"
    /\ UNCHANGED <<fsFiles, fsDirs, envTimeout, registry, scans, plan, envelope,
                   exc, candidates, idx, last_err, timeout_sec, lastExit, nDispatch,
                   failed>>
    /\ ServerIdle
    /\ MainIdle

\* subprocess.run raises before the child runs (except Exception branch).
HelloSpawnFails ==
    /\ pc = "hello_try"
    /\ spawned' = Append(spawned, candidates[idx])
    /\ lastExit' = "failed"
    /\ HelloAdvance(PDict(HelloStartError(candidates[idx])))
    /\ UNCHANGED <<fsFiles, fsDirs, envTimeout, registry, scans, plan, exc,
                   candidates, timeout_sec, live, nDispatch, failed>>
    /\ ServerIdle
    /\ MainIdle

\* The child exits before the deadline.
HelloChildExit ==
    /\ pc = "hello_wait"
    /\ \E i \in 1..Len(ChildExits) :
         LET o == ChildExits[i]
             cmd == candidates[idx]
         IN  /\ live' = Reaped(live, Len(spawned))
             /\ lastExit' = ExitTag(o.rc)
             /\ IF HelloStops(o.rc)
                THEN /\ pc' = "done"
                     /\ envelope' = Envelope(plan, HelloSuccess(cmd, o, timeout_sec))
                     /\ UNCHANGED <<idx, last_err>>
                ELSE HelloAdvance(PDict(HelloNonZero(cmd, o, timeout_sec)))
    /\ UNCHANGED <<fsFiles, fsDirs, envTimeout, registry, scans, plan, exc,
                   candidates, timeout_sec, spawned, nDispatch, failed>>
    /\ ServerIdle
    /\ MainIdle

\* The deadline passes first: subprocess.TimeoutExpired.
HelloDeadline ==
    /\ pc = "hello_wait"
    /\ live' = Killed(live, Len(spawned))
    /\ lastExit' = "timeout"
    /\ HelloAdvance(PDict(HelloTimedOut(candidates[idx], timeout_sec)))
    /\ UNCHANGED <<fsFiles, fsDirs, envTimeout, registry, scans, plan, exc,
                   candidates, timeout_sec, spawned, nDispatch, failed>>
    /\ ServerIdle
    /\ MainIdle

\* run(argv) of the git invoker: subprocess.run(base + argv, ...) starts the child.
GitSpawn ==
    /\ pc = "git_try"
    /\ spawned' = Append(spawned, candidates[1])
    /\ live' = Started(live, Len(spawned) + 1)
    /\ pc' = "git_wait"
    /\ UNCHANGED <<fsFiles, fsDirs, envTimeout, registry, scans, plan, envelope,
                   exc, candidates, idx, last_err, timeout_sec, lastExit, nDispatch,
                   failed>>
    /\ ServerIdle
    /\ MainIdle

\* run(argv) returns its result and _invoke returns it to dispatch_stub.
GitFinish(result) ==
    /\ pc' = "done"
    /\ envelope' = Envelope(plan, result)
    /\ UNCHANGED <<fsFiles, fsDirs, envTimeout, registry, scans, plan, exc,
                   candidates, idx, last_err, timeout_sec, nDispatch, failed>>
    /\ ServerIdle
    /\ MainIdle

\* subprocess.run raises before the child runs (except Exception branch).
GitSpawnFails ==
    /\ pc = "git_try"
    /\ spawned' = Append(spawned, candidates[1])
    /\ lastExit' = "failed"
    /\ live' = live
    /\ GitFinish(GitRunError(candidates[1]))

\* The child exits before the deadline.
GitChildExit ==
    /\ pc = "git_wait"
    /\ \E i \in 1..Len(ChildExits) :
         /\ lastExit' = ExitTag(ChildExits[i].rc)
         /\ GitFinish(GitRunExit(candidates[1], ChildExits[i], timeout_sec))
    /\ live' = Reaped(live, Len(spawned))
    /\ spawned' = spawned

\* The deadline passes first: subprocess.TimeoutExpired.
GitDeadline ==
    /\ pc = "git_wait"
    /\ live' = Killed(live, Len(spawned))
    /\ lastExit' = "timeout"
    /\ spawned' = spawned
    /\ GitFinish(GitRunTimeout(candidates[1], timeout_sec))

HostNext ==
    \/ EnsureDiscovered
    \/ Dispatch
    \/ Collect
    \/ HelloSpawn
    \/ HelloSpawnFails
    \/ HelloChildExit
    \/ HelloDeadline
    \/ GitSpawn
    \/ GitSpawnFails
    \/ GitChildExit
    \/ GitDeadline

ServerInitIdle == spc = "running" /\ inLog = <<>> /\ outLog = <<>>

\* plan_with_ollama_timeout's result = {} and err = {} before the thread runs.
EmptySlot == [result |-> EmptyDict, exc |-> ""]

\* The host on its own: every filesystem layout and timeout setting, then
\* MaxDispatch calls of dispatch_stub.
\* main is not running: dispatch_stub is called as a library function.
MainOff ==
    /\ mpc = "off" /\ ollamaOk = TRUE /\ worker = "none" /\ slot = EmptySlot
    /\ mainExc = "" /\ printed = NoEnvelope

\* No git client is running.
SessionOff ==
    /\ cpc = "off" /\ cliRun = 1 /\ held = FALSE /\ child = "none"
    /\ streams = "none" /\ wire = <<>> /\ cliRc = "none"
    /\ late = [n |-> 0, res |-> "none"]
    /\ srv = [cmd |-> "", args |-> <<>>, which |-> {}]
    /\ launch = [command |-> "", args |-> <<>>]

Init == HostInit /\ MainOff /\ ServerInitIdle /\ SessionOff
Next == HostNext
Spec == Init /\ [][Next]_vars

\* --------------------------------------------------- host: main and planner
\* What the planner worker can raise: ollama.chat fails, or the model's
\* output holds no JSON object.
PlannerErrors == << "ConnectionError", "JSONDecodeError" >>

\* main up to input(): without ollama it raises at once, otherwise it runs
\* ensure_discovered().
MainStart ==
    /\ mpc = "start"
    /\ IF ollamaOk
       THEN /\ registry' = ensure_discovered(registry)
            /\ scans' = IF NeedsScan(registry) THEN scans + 1 ELSE scans
            /\ mpc' = "input"
            /\ mainExc' = mainExc
       ELSE /\ mpc' = "fatal"
            /\ mainExc' = "RuntimeError"
            /\ UNCHANGED <<registry, scans>>
    /\ UNCHANGED <<fsFiles, fsDirs, envTimeout, pc, plan, envelope, exc,
                   candidates, idx, last_err, timeout_sec, spawned, live,
                   lastExit, nDispatch, failed, ollamaOk, worker, slot, printed>>
    /\ ServerIdle

\* plan_with_ollama_timeout: the worker thread is started and joined with
\* the deadline.
PlannerStart ==
    /\ mpc = "input"
    /\ worker' = "running"
    /\ slot' = EmptySlot
    /\ mpc' = "planning"
    /\ UNCHANGED <<hostVars, ollamaOk, mainExc, printed>>
    /\ ServerIdle

\* Mutant of JoinOutcome: the caller returns result without looking at the
\* thread.
JoinOutcomeBlind(alive, s) == [t |-> "return", exc |-> "", result |-> s.result]

\* What plan_with_ollama_timeout does once join(timeout) is over: TimeoutError
\* if the thread is alive, else the thread's exception, else its result.
JoinOutcome(alive, s) ==
    IF alive THEN [t |-> "raise", exc |-> "TimeoutError", result |-> EmptyDict]
    ELSE IF s.exc /= "" THEN [t |-> "raise", exc |-> s.exc, result |-> EmptyDict]
    ELSE [t |-> "return", exc |-> "", result |-> s.result]

\* main takes the outcome: an exception escapes main (nothing catches it), a
\* plan is handed to dispatch_stub.
CallerTakes(o) ==
    IF o.t = "raise"
    THEN /\ mainExc' = o.exc
         /\ mpc' = "fatal"
         /\ UNCHANGED hostVars
         /\ ServerIdle
    ELSE /\ dispatch_stub(o.result)
         /\ mpc' = "dispatching"
         /\ mainExc' = mainExc

\* The worker returns a Plan before the deadline; main hands it to
\* dispatch_stub.
PlannerReturns ==
    /\ mpc = "planning"
    /\ worker = "running"
    /\ \E i \in 1..Len(PlanTable) :
          /\ slot' = [result |-> PlanTable[i], exc |-> ""]
          /\ CallerTakes(JoinOutcome(FALSE, [result |-> PlanTable[i], exc |-> ""]))
    /\ worker' = "returned"
    /\ UNCHANGED <<ollamaOk, printed>>

\* The worker raises before the deadline: the exception is re-raised in the
\* caller and nothing in main catches it.
PlannerRaises ==
    /\ mpc = "planning"
    /\ worker = "running"
    /\ \E i \in 1..Len(PlannerErrors) :
          /\ slot' = [result |-> EmptyDict, exc |-> PlannerErrors[i]]
          /\ CallerTakes(JoinOutcome(FALSE, [result |-> EmptyDict,
                                             exc |-> PlannerErrors[i]]))
    /\ worker' = "raised"
    /\ UNCHANGED <<ollamaOk, printed>>

\* The worker is still alive when join(timeout) returns: TimeoutError.
PlannerDeadline ==
    /\ mpc = "planning"
    /\ worker = "running"
    /\ CallerTakes(JoinOutcome(TRUE, slot))
    /\ UNCHANGED <<ollamaOk, worker, slot, printed>>

\* The daemon thread finishes after the deadline: it writes result or
\* err["exc"], which no one reads any more.
PlannerLate ==
    /\ mpc /= "planning"
    /\ worker = "running"
    /\ \/ \E i \in 1..Len(PlanTable) :
             slot' = [result |-> PlanTable[i], exc |-> ""] /\ worker' = "returned"
       \/ \E i \in 1..Len(PlannerErrors) :
             slot' = [result |-> EmptyDict, exc |-> PlannerErrors[i]]
             /\ worker' = "raised"
    /\ UNCHANGED <<hostVars, mpc, ollamaOk, mainExc, printed>>
    /\ ServerIdle

\* dispatch_stub is over: main prints the envelope it returned, or the
\* exception it raised escapes main.
MainFinish ==
    /\ mpc = "dispatching"
    /\ pc \in {"done", "raised"}
    /\ IF pc = "done"
       THEN mpc' = "exit" /\ printed' = envelope /\ mainExc' = mainExc
       ELSE mpc' = "fatal" /\ printed' = printed /\ mainExc' = exc
    /\ UNCHANGED <<hostVars, ollamaOk, worker, slot>>
    /\ ServerIdle

\* One run of the command line: every filesystem layout and timeout
\* setting, with or without ollama.
MainInit ==
    /\ HostInit
    /\ ServerInitIdle
    /\ SessionOff
    /\ mpc = "start" /\ ollamaOk \in BOOLEAN /\ worker = "none"
    /\ slot = EmptySlot
    /\ mainExc = "" /\ printed = NoEnvelope

MainNext ==
    \/ MainStart
    \/ PlannerStart
    \/ PlannerReturns
    \/ PlannerRaises
    \/ PlannerDeadline
    \/ PlannerLate
    \/ MainFinish
    \/ HelloSpawn
    \/ HelloSpawnFails
    \/ HelloChildExit
    \/ HelloDeadline
    \/ GitSpawn
    \/ GitSpawnFails
    \/ GitChildExit
    \/ GitDeadline

MainSpec == MainInit /\ [][MainNext]_vars

\* ------------------------------------------------------------ hello server
\* A key that is not present in a JSON object.
Absent == [k |-> "absent"]

\* A JSON object holding the keys whose value is not Absent.
Obj3(k1, v1, k2, v2, k3, v3) ==
    LET full == [key \in {k1, k2, k3} |->
                    IF key = k1 THEN v1 ELSE IF key = k2 THEN v2 ELSE v3]
    IN  PDict([key \in {x \in {k1, k2, k3} : full[x].k /= "absent"} |-> full[key]])

\* One JSON-RPC message line: {"jsonrpc": "2.0", "id"?, "method"?, "params"?}
Message(id, method, params) ==
    [kind |-> "json", v |-> Obj3("id", id, "method", method, "params", params)]

\* params of a tools/call: {"name"?, "arguments"?}
CallParams(name, arguments) ==
    Obj3("name", name, "arguments", arguments, "unused", Absent)
Arguments(message) == Obj3("message", message, "unused", Absent, "unused2", Absent)

Ids == << Absent, PInt(1), PStr("abc"), None >>
Methods == << PStr("initialize"), PStr("tools/list"), PStr("tools/call"),
              PStr("notifications/initialized"), PStr("foo"), Absent >>
CallIds == << Absent, PInt(1) >>
CallParamsTable ==
    << None, PDict(EmptyDict), PList(<<"x">>), PStr("abc"),
       CallParams(PStr("hello"), Arguments(PStr("hi"))),
       CallParams(PStr("other"), Arguments(PStr("hi"))),
       CallParams(Absent, Arguments(PStr("hi"))),
       CallParams(PInt(5), Absent),
       CallParams(PStr("hello"), Absent),
       CallParams(PStr("hello"), Arguments(PInt(5))),
       CallParams(PStr("hello"), PList(<<"message">>)),
       CallParams(PStr("hello"), PList(<<"x">>)),
       CallParams(PStr("hello"), PStr("a message")),
       CallParams(PStr("hello"), PInt(5)) >>

\* Lines that are not JSON objects: blank after strip(), text json.loads
\* rejects, and valid JSON of another type.
OddLines ==
    << [kind |-> "blank", v |-> None],
       [kind |-> "invalid", v |-> None],
       [kind |-> "json", v |-> PInt(5)],
       [kind |-> "json", v |-> PList(<<"x">>)],
       [kind |-> "json", v |-> None] >>

\* Every line the model feeds to the server's stdin.
LineTable ==
    OddLines
    \o [i \in 1..(Len(Ids) * Len(Methods)) |->
          Message(Ids[((i - 1) \div Len(Methods)) + 1],
                  Methods[((i - 1) % Len(Methods)) + 1], Absent)]
    \o [i \in 1..(Len(CallIds) * Len(CallParamsTable)) |->
          Message(CallIds[((i - 1) \div Len(CallParamsTable)) + 1],
                  PStr("tools/call"),
                  CallParamsTable[((i - 1) % Len(CallParamsTable)) + 1])]

\* now_iso(): the local time at the call
Clock == << "2026-01-01 00:00:00", "2026-01-01 00:00:01" >>

\* JSON-RPC error codes the server writes
ParseErrorCode == -32700
MethodNotFoundCode == -32601
InvalidParamsCode == -32602
ServerErrorCode == -32000

\* Mutant of ErrorResponse: the error reply does not echo the id.
ErrorResponseNullId(req_id, code, message) ==
    [jsonrpc |-> "2.0", id |-> None, error |-> [code |-> code, message |-> message]]

ErrorResponse(req_id, code, message) ==
    [jsonrpc |-> "2.0", id |-> req_id, error |-> [code |-> code, message |-> message]]
ResultResponse(req_id, result) ==
    [jsonrpc |-> "2.0", id |-> req_id, result |-> result]

\* What a handler does: write one response, or raise (caught by main).
Wrote(msg) == [t |-> "write", msg |-> msg]
Raised(e) == [t |-> "raise", msg |-> [jsonrpc |-> "2.0"], exc |-> e]

handle_initialize(req_id, params) ==
    Wrote(ResultResponse(req_id,
        [protocolVersion |-> "2025-06-18",
         capabilities |-> [tools |-> [listChanged |-> FALSE],
                           prompts |-> [listChanged |-> FALSE],
                           resources |-> [listChanged |-> FALSE]],
         serverInfo |-> [name |-> "hello_server", title |-> "MCP Hello Server",
                         version |-> "1.0.0"]]))

handle_tools_list(req_id) ==
    Wrote(ResultResponse(req_id, [tools |-> <<"hello">>, nextCursor |-> None]))

\* "message" not in arguments: [ok, res] or the TypeError of a non-container
MessageNotIn(arguments) ==
    CASE arguments.k = "dict" -> [ok |-> TRUE, res |-> "message" \notin DOMAIN arguments.d]
      [] arguments.k = "list" ->
            [ok |-> TRUE, res |-> \A i \in 1..Len(arguments.l) : arguments.l[i] /= "message"]
      [] arguments.k = "str" ->
            [ok |-> TRUE, res |-> arguments.s \notin {"message", "a message"}]
      [] OTHER -> [ok |-> FALSE, res |-> FALSE]

\* Mutant of UnknownToolCode: the unknown tool is reported as an unknown method.
UnknownToolCodeWrong == MethodNotFoundCode

\* The code of the "unknown tool" reply.
UnknownToolCode == InvalidParamsCode

\* The test `name != "hello"`.
IsKnownTool(name) == name.k = "str" /\ name.s = "hello"

handle_tools_call(req_id, params, now) ==
    LET p == Or(params, PDict(EmptyDict))
    IN  IF p.k /= "dict" THEN Raised("AttributeError")
        ELSE
        LET name == Get(p.d, "name")
            arguments == Or(Get(p.d, "arguments"), PDict(EmptyDict))
            notIn == MessageNotIn(arguments)
        IN  IF ~IsKnownTool(name)
            THEN Wrote(ErrorResponse(req_id, UnknownToolCode,
                                     "Unknown tool: " \o Str(name)))
            ELSE IF ~notIn.ok THEN Raised("TypeError")
            ELSE IF notIn.res
            THEN Wrote(ErrorResponse(req_id, InvalidParamsCode,
                           "Invalid params: 'message' (string) is required"))
            ELSE IF arguments.k /= "dict" THEN Raised("TypeError")
            ELSE IF arguments.d["message"].k /= "str"
            THEN Wrote(ErrorResponse(req_id, InvalidParamsCode,
                           "Invalid params: 'message' (string) is required"))
            ELSE Wrote(ResultResponse(req_id,
                     [isError |-> FALSE,
                      content |-> << [type |-> "text",
                                      text |-> "hello: " \o arguments.d["message"].s
                                               \o " @ " \o now] >>]))

\* Mutant of UnknownMethod: the reply does not echo the id of the request.
UnknownMethodNoId(req_id, method) ==
    Wrote(ErrorResponse(None, MethodNotFoundCode, "Unknown method: " \o Str(method)))

\* The reply to a method that is none of the known ones.
UnknownMethod(req_id, method) ==
    Wrote(ErrorResponse(req_id, MethodNotFoundCode, "Unknown method: " \o Str(method)))

\* The if/elif chain of main on req["method"].
MethodIs(method, name) == method.k = "str" /\ method.s = name

RouteMethod(method, req_id, params, now) ==
    IF MethodIs(method, "initialize") THEN handle_initialize(req_id, params)
    ELSE IF MethodIs(method, "tools/list") THEN handle_tools_list(req_id)
    ELSE IF MethodIs(method, "tools/call") THEN handle_tools_call(req_id, params, now)
    ELSE UnknownMethod(req_id, method)

\* Mutant of ParseFailure: the exception of json.loads escapes main.
ParseFailureFatal == [out |-> <<>>, crash |-> TRUE]

\* json.loads(line) raises: main writes the parse error with id null and
\* continues with the next line.
ParseFailure ==
    [out |-> <<ErrorResponse(None, ParseErrorCode, "Parse error")>>, crash |-> FALSE]

\* One pass of main's loop over a line that is not EOF: the lines written
\* to stdout (at most one) and whether main survives.
\* req.get(...) runs outside the try block: a JSON value that is not an
\* object raises AttributeError out of main.
HandleLine(line, now) ==
    IF line.kind = "blank" THEN [out |-> <<>>, crash |-> FALSE]
    ELSE IF line.kind = "invalid" THEN ParseFailure
    ELSE IF line.v.k /= "dict" THEN [out |-> <<>>, crash |-> TRUE]
    ELSE LET req == line.v.d
             method == Get(req, "method")
             req_id == Get(req, "id")
             params == Get(req, "params")
             h == RouteMethod(method, req_id, params, now)
         IN  IF h.t = "write" THEN [out |-> <<h.msg>>, crash |-> FALSE]
             ELSE [out |-> <<ErrorResponse(req_id, ServerErrorCode,
                                           "Server error: " \o h.exc)>>,
                   crash |-> FALSE]

HostIdle == UNCHANGED <<hostVars, mainVars>>

\* main reads one line from stdin and handles it.
ServerRead ==
    /\ spc = "running"
    /\ Len(inLog) < MaxLines
    /\ \E i \in 1..Len(LineTable), c \in 1..Len(Clock) :
         LET r == HandleLine(LineTable[i], Clock[c])
             pos == Len(inLog) + 1
         IN  /\ inLog' = Append(inLog, LineTable[i])
             /\ outLog' = outLog \o [j \in 1..Len(r.out) |-> [pos |-> pos, msg |-> r.out[j]]]
             /\ spc' = IF r.crash THEN "crashed" ELSE "running"
    /\ HostIdle
    /\ SessionIdle

\* readline() returns "": stdin is at EOF and main leaves the loop.
ServerEOF ==
    /\ spc = "running"
    /\ spc' = "eof"
    /\ UNCHANGED <<inLog, outLog>>
    /\ HostIdle
    /\ SessionIdle

\* The host does nothing while the server is studied: no tool files, no calls.
HostQuiet ==
    /\ fsFiles = {} /\ fsDirs = {} /\ envTimeout = None
    /\ registry = EmptyDict /\ scans = 0 /\ pc = "idle"
    /\ plan = PlanTable[1] /\ envelope = NoEnvelope /\ exc = ""
    /\ candidates = <<>> /\ idx = 0 /\ last_err = None /\ timeout_sec = 0
    /\ spawned = <<>> /\ live = {} /\ lastExit = "none" /\ nDispatch = 0
    /\ failed = {}

ServerInit == HostQuiet /\ MainOff /\ ServerInitIdle /\ SessionOff
ServerNext == ServerRead \/ ServerEOF
ServerSpec == ServerInit /\ [][ServerNext]_vars

\* ------------------------------------------------------------- git client
\* The tool each sub-command of the command line calls (the convenience
\* wrappers of GitMCPClient); "call" names its tool with --tool.
ToolOf(cmd) ==
    CASE cmd = "status"        -> "git_status"
      [] cmd = "diff-unstaged" -> "git_diff_unstaged"
      [] cmd = "diff-staged"   -> "git_diff_staged"
      [] cmd = "diff"          -> "git_diff"
      [] cmd = "add"           -> "git_add"
      [] cmd = "reset"         -> "git_reset"
      [] cmd = "commit"        -> "git_commit"
      [] cmd = "log"           -> "git_log"
      [] cmd = "create-branch" -> "git_create_branch"
      [] cmd = "checkout"      -> "git_checkout"
      [] cmd = "show"          -> "git_show"
      [] cmd = "init"          -> "git_init"
      [] cmd = "branch"        -> "git_branch"
      [] OTHER                 -> "git_status"

\* The command lines the model runs: every sub-command, and "call" with a
\* JSON object, with JSON of another type and with text that is not JSON.
CliRuns ==
    << [cmd |-> "tools", json |-> "{}"], [cmd |-> "status", json |-> "{}"],
       [cmd |-> "diff-unstaged", json |-> "{}"], [cmd |-> "diff-staged", json |-> "{}"],
       [cmd |-> "diff", json |-> "{}"], [cmd |-> "add", json |-> "{}"],
       [cmd |-> "reset", json |-> "{}"], [cmd |-> "commit", json |-> "{}"],
       [cmd |-> "log", json |-> "{}"], [cmd |-> "create-branch", json |-> "{}"],
       [cmd |-> "checkout", json |-> "{}"], [cmd |-> "show", json |-> "{}"],
       [cmd |-> "init", json |-> "{}"], [cmd |-> "branch", json |-> "{}"],
       [cmd |-> "call", json |-> "{}"], [cmd |-> "call", json |-> "[1]"],
       [cmd |-> "call", json |-> "{bad"] >>

\* json.loads(args.json) succeeds and gives a dict
JsonObject(text) == text = "{}"

\* A request handed to the ClientSession.
Request(method, name) == [method |-> method, name |-> name]

\* The request of a command line: tools/list for "tools", else tools/call.
CliRequest(run) ==
    IF run.cmd = "tools" THEN Request("tools/list", "")
    ELSE Request("tools/call", ToolOf(run.cmd))

\* _build_server_params(repo_path, cmd, extra_args): the (command, args) that
\* launch the server; which holds the names shutil.which finds, and
\* "/abs/repo" stands for os.path.abspath(repo_path).
build_server_params(cmd, extra_args, which) ==
    LET repository == <<"--repository", "/abs/repo">>
        Has(a, x) == \E i \in 1..Len(a) : a[i] = x
        defaulted ==
            IF /\ cmd \in {"uv", "uvx"}
               /\ (extra_args = <<>> \/ extra_args[1] \notin {"mcp-server-git", "run"})
            THEN IF cmd = "uvx" THEN <<"mcp-server-git">> \o extra_args
                 ELSE <<"run", "mcp-server-git">> \o extra_args
            ELSE extra_args
    IN  IF cmd /= ""
        THEN [command |-> cmd,
              args |-> IF ~Has(defaulted, "--repository") /\ ~Has(defaulted, "-r")
                       THEN defaulted \o repository ELSE defaulted]
        ELSE IF "uvx" \in which
        THEN [command |-> "uvx", args |-> <<"mcp-server-git">> \o repository]
        ELSE IF "uv" \in which
        THEN [command |-> "uv", args |-> <<"run", "mcp-server-git">> \o repository]
        ELSE IF "python" \in which
        THEN [command |-> "python", args |-> <<"-m", "mcp_server_git">> \o repository]
        ELSE [command |-> "mcp-server-git", args |-> repository]

\* _connect: stdio_client spawns the server, ClientSession is entered and
\* session.initialize() sends the initialize request.
ConnectSpawn ==
    /\ cpc = "new"
    /\ child' = "running"
    /\ streams' = "open"
    /\ wire' = Append(wire, Request("initialize", ""))
    /\ cpc' = "handshaking"
    /\ UNCHANGED <<cliRun, held, cliRc, late>>
    /\ launch' = build_server_params(srv.cmd, srv.args, srv.which)
    /\ HostIdle /\ UNCHANGED <<serverVars, srv>>

\* _connect: the server command cannot be started; nothing was spawned.
ConnectSpawnFails ==
    /\ cpc = "new"
    /\ cpc' = "failed"
    /\ cliRc' = "raised"
    /\ UNCHANGED <<cliRun, held, child, streams, wire, late>>
    /\ launch' = build_server_params(srv.cmd, srv.args, srv.which)
    /\ HostIdle /\ UNCHANGED <<serverVars, srv>>

\* initialize is answered: _connect returns and __aenter__ stores the stack
\* and the session.
HandshakeOk ==
    /\ cpc = "handshaking"
    /\ held' = TRUE
    /\ cpc' = "ready"
    /\ UNCHANGED <<cliRun, child, streams, wire, cliRc, late>>
    /\ HostIdle /\ UNCHANGED <<serverVars, launchVars>>

\* initialize fails (I/O error, or the child crashed): the exception leaves
\* _connect, whose local stack is dropped without aclose() and __aexit__ is
\* not run.  Whether the runtime finalises the transport afterwards is not
\* decided by this code: both outcomes are kept.
HandshakeFails ==
    /\ cpc = "handshaking"
    /\ \E crashed \in BOOLEAN, finalised \in BOOLEAN :
          /\ child' = IF crashed THEN "exited"
                      ELSE IF finalised THEN "terminated" ELSE "running"
          /\ streams' = IF finalised THEN "closed" ELSE "open"
    /\ cpc' = "failed"
    /\ cliRc' = "raised"
    /\ UNCHANGED <<cliRun, held, wire, late>>
    /\ HostIdle /\ UNCHANGED <<serverVars, launchVars>>

\* The body of `async with` in _run_cli: an invalid --json returns 2 without
\* a request; every other command sends its request and returns 0, or the
\* request raises.
Command ==
    /\ cpc = "ready"
    /\ LET run == CliRuns[cliRun]
       IN  IF run.cmd = "call" /\ ~JsonObject(run.json)
           THEN cliRc' = "2" /\ UNCHANGED <<wire, child>>
           ELSE /\ wire' = Append(wire, CliRequest(run))
                /\ \E ok \in BOOLEAN, crashed \in BOOLEAN :
                      /\ cliRc' = IF ok THEN "0" ELSE "raised"
                      /\ child' = IF ~ok /\ crashed THEN "exited" ELSE child
    /\ cpc' = "exiting"
    /\ UNCHANGED <<cliRun, held, streams, late>>
    /\ HostIdle /\ UNCHANGED <<serverVars, launchVars>>

\* Mutant of AExitCloses: __aexit__ closes nothing.
AExitSkips(h) == FALSE

\* __aexit__: `if self._stack: await self._stack.aclose()`
AExitCloses(h) == h

\* __aexit__ on leaving `async with`: the stack is closed, which closes the
\* transport and terminates the server; _stack and session stay set.
Exit ==
    /\ cpc = "exiting"
    /\ IF AExitCloses(held)
       THEN /\ streams' = "closed"
            /\ child' = IF child = "running" THEN "terminated" ELSE child
       ELSE UNCHANGED <<streams, child>>
    /\ cpc' = "closed"
    /\ UNCHANGED <<cliRun, held, wire, cliRc, late>>
    /\ HostIdle /\ UNCHANGED <<serverVars, launchVars>>

\* call() or list_tools() on a client that was closed: `assert self.session`
\* passes (session is still set) and the request is handed to the closed
\* ClientSession.  What that does is not decided by this code: it raises at
\* once, or it takes the request and waits for an answer that never comes.
LateCall ==
    /\ cpc = "closed"
    /\ held
    /\ late.n < MaxLate
    /\ late.res /= "blocked"
    /\ \E i \in 1..Len(CliRuns), raises \in BOOLEAN :
          /\ JsonObject(CliRuns[i].json)
          /\ late' = [n |-> late.n + 1,
                      res |-> IF raises THEN "error" ELSE "blocked"]
          /\ wire' = IF raises THEN wire ELSE Append(wire, CliRequest(CliRuns[i]))
    /\ UNCHANGED <<cpc, cliRun, held, child, streams, cliRc>>
    /\ HostIdle /\ UNCHANGED <<serverVars, launchVars>>

\* One GitMCPClient, driven by any command line of CliRuns.
SessionInit ==
    /\ HostQuiet /\ MainOff /\ ServerInitIdle
    /\ cpc = "new" /\ cliRun \in 1..Len(CliRuns) /\ held = FALSE
    /\ child = "none" /\ streams = "none" /\ wire = <<>> /\ cliRc = "none"
    /\ late = [n |-> 0, res |-> "none"]
    /\ srv \in [cmd : {""}, args : {<<>>}, which : SUBSET {"uvx", "python"}]
    /\ launch = [command |-> "", args |-> <<>>]

SessionNext ==
    \/ ConnectSpawn
    \/ ConnectSpawnFails
    \/ HandshakeOk
    \/ HandshakeFails
    \/ Command
    \/ Exit
    \/ LateCall

SessionSpec == SessionInit /\ [][SessionNext]_vars

\* The launch on its own: one command line (status), every override command,
\* extra argument list and set of executables found on PATH.
LaunchInit ==
    /\ HostQuiet /\ MainOff /\ ServerInitIdle
    /\ cpc = "new" /\ cliRun = 2 /\ held = FALSE
    /\ child = "none" /\ streams = "none" /\ wire = <<>> /\ cliRc = "none"
    /\ late = [n |-> 0, res |-> "none"]
    /\ srv \in [cmd : {"", "uvx", "uv", "python", "/opt/git-server"},
                 args : {<<>>, <<"--verbose">>, <<"mcp-server-git">>,
                         <<"run", "mcp-server-git">>, <<"run", "other-tool">>,
                         <<"-m", "mcp_server_git">>, <<"--repository", "/r">>,
                         <<"-r", "/r">>, <<"mcp-server-git", "-r", "/r">>,
                         <<"--repository", "/a", "-r", "/b">>},
                 which : SUBSET {"uvx", "uv", "python"}]
    /\ launch = [command |-> "", args |-> <<>>]

LaunchNext == ConnectSpawn \/ ConnectSpawnFails

LaunchSpec == LaunchInit /\ [][LaunchNext]_vars

\* ================================================================ claims
\* Shorthands over the state of the current dispatch_stub call.
PlanTarget == Get(plan, "target")
PlanArgs == GetDefault(plan, "args", PDict(EmptyDict))
HasInvoker(target) == target.k = "str" /\ target.s \in DOMAIN registry
IsUnsupported(r, target) ==
    /\ DOMAIN r = {"status", "target"}
    /\ r.status = "unsupported_target"
    /\ r.target = target
NoChild == spawned = <<>> /\ live = {}

C2_NeverRaises ==
    /\ pc /= "raised"
    /\ exc = ""
    /\ (pc = "done" /\ IsTool(PlanTarget)) =>
          /\ "ok" \in DOMAIN envelope.result
          /\ ~envelope.result.ok =>
                ({"error", "returncode"} \cap DOMAIN envelope.result) /= {}

\* C3 (as stated): when the invoker returns after its child ran past the
\* deadline, the result has timed_out = true and ok = false, and no child of
\* the invocation is still running.
C3_TimedOutReported ==
    (pc = "done" /\ lastExit = "timeout") =>
        /\ "timed_out" \in DOMAIN envelope.result
        /\ envelope.result.timed_out = TRUE
        /\ envelope.result.ok = FALSE
        /\ live = {}

\* C4 (as stated): when every candidate of the hello invoker has failed, the
\* returned result has ok = false and its command field is the last
\* candidate tried.
C4_LastFailureWins ==
    (/\ pc = "done"
     /\ TargetIs(PlanTarget, "hello")
     /\ candidates /= <<>>
     /\ lastExit \in {"exitN", "timeout", "failed"}) =>
        /\ envelope.result.ok = FALSE
        /\ "command" \in DOMAIN envelope.result
        /\ envelope.result.command = candidates[Len(candidates)]

\* Priority of a candidate command: interpreter script, compiled binary,
\* shell script; within each, the --message form before the positional one.
CandidateRank(cmd) ==
    LET family == IF cmd[1] = PythonExe THEN 0
                  ELSE IF cmd[1] = "bash" THEN 2 ELSE 1
        positional == IF \E i \in 1..Len(cmd) : cmd[i] = "--message" THEN 0 ELSE 1
    IN  2 * family + positional

\* C5: while the hello invoker runs and when it has returned, its candidates
\* are in the fixed priority order, the commands spawned so far are exactly
\* the first candidates in that order, at most one child runs at a time, a
\* child exiting with code zero ends the loop at once with ok = true and
\* command = that candidate, and ok = true is returned in no other case.
C5_OrderedFirstSuccess ==
    (/\ pc \in {"hello_try", "hello_wait", "done"}
     /\ TargetIs(PlanTarget, "hello")
     /\ candidates /= <<>>) =>
        /\ \A i, j \in 1..Len(candidates) :
              i < j => CandidateRank(candidates[i]) < CandidateRank(candidates[j])
        /\ Len(spawned) <= Len(candidates)
        /\ spawned = SubSeq(candidates, 1, Len(spawned))
        /\ live \subseteq {Len(spawned)}
        /\ (pc = "hello_wait") = (live /= {})
        /\ lastExit = "exit0" =>
              /\ pc = "done"
              /\ envelope.result.ok = TRUE
              /\ envelope.result.command = spawned[Len(spawned)]
        /\ (pc = "done" /\ envelope.result.ok) => lastExit = "exit0"

\* C5 witness: the first two candidates failed, the third exited with zero
\* and the remaining three were never spawned.
C5_Witness ==
    /\ pc = "done"
    /\ TargetIs(PlanTarget, "hello")
    /\ Len(candidates) = 6
    /\ Len(spawned) = 3
    /\ envelope.result.ok = TRUE
    /\ envelope.result.command = candidates[3]

\* "Required field missing or empty" of the git invoker's logical commands.
GitMissingRequired(d) ==
    LET cmd == Str(Or(Get(d, "cmd"), PStr("status")))
    IN  \/ cmd = "commit" /\ ~Truthy(Get(d, "message"))
        \/ cmd = "add" /\ ~Truthy(Get(d, "files"))
        \/ /\ cmd \in {"create-branch", "checkout"}
           /\ ~Truthy(Get(d, "name"))
           /\ ~Truthy(Get(d, "branch_name"))

\* C6 (as stated): a git invocation whose logical command lacks its required
\* field returns ok = false with an error text and no command field, and no
\* process is spawned.
C6_RejectedBeforeSpawn ==
    (/\ pc /= "idle"
     /\ TargetIs(PlanTarget, "git")
     /\ HasInvoker(PlanTarget)
     /\ PlanArgs.k = "dict"
     /\ GitMissingRequired(PlanArgs.d)) =>
        /\ pc = "done"
        /\ envelope.result.ok = FALSE
        /\ "error" \in DOMAIN envelope.result
        /\ "command" \notin DOMAIN envelope.result
        /\ NoChild

\* Shorthands over the lines the server has read and written.
IsObject(line) == line.kind = "json" /\ line.v.k = "dict"
HasId(line) == IsObject(line) /\ "id" \in DOMAIN line.v.d
IsNotification(line) == IsObject(line) /\ "id" \notin DOMAIN line.v.d
LineMethod(line) == Get(line.v.d, "method")
LineParams(line) == Get(line.v.d, "params")
RepliesTo(i) == {j \in 1..Len(outLog) : outLog[j].pos = i}
IsError(msg, code) ==
    /\ "error" \in DOMAIN msg
    /\ "result" \notin DOMAIN msg
    /\ msg.error.code = code

\* C7 (as stated): no line the server writes answers a message without an id.
C7_NoReplyToNotification ==
    \A j \in 1..Len(outLog) : ~IsNotification(inLog[outLog[j].pos])

\* C8 (as stated): every line written answers exactly one request line read
\* (a message carrying an id, whose id it echoes; or an undecodable line,
\* answered with id null), with at most one reply per line, in input order.
C8_OnlySolicitedReplies ==
    /\ \A j \in 1..Len(outLog) :
          LET line == inLog[outLog[j].pos]
              msg == outLog[j].msg
          IN  \/ HasId(line) /\ msg.id = line.v.d["id"]
              \/ line.kind = "invalid" /\ msg.id = None
    /\ \A j, k \in 1..Len(outLog) : j < k => outLog[j].pos < outLog[k].pos

\* A tools/call whose params is an object (or absent, or null) naming no
\* known tool.
CallsUnknownTool(line) ==
    /\ IsObject(line)
    /\ MethodIs(LineMethod(line), "tools/call")
    /\ LineParams(line).k \in {"none", "dict"}
    /\ LET name == IF LineParams(line).k = "dict"
                   THEN Get(LineParams(line).d, "name") ELSE None
       IN  ~(name.k = "str" /\ name.s = "hello")

\* C9: every tools/call read by the server that names no known tool gets
\* exactly one reply: an error with code -32602 and the id of the request,
\* and no result.
C9_UnknownToolInvalidParams ==
    \A i \in 1..Len(inLog) :
        CallsUnknownTool(inLog[i]) =>
            /\ Cardinality(RepliesTo(i)) = 1
            /\ \A j \in RepliesTo(i) :
                  /\ IsError(outLog[j].msg, -32602)
                  /\ outLog[j].msg.id = Get(inLog[i].v.d, "id")

\* C9 witness: a tools/call with id 1 naming the tool "other" was answered.
C9_Witness ==
    \E i \in 1..Len(inLog) :
        /\ CallsUnknownTool(inLog[i])
        /\ Get(inLog[i].v.d, "id") = PInt(1)
        /\ LineParams(inLog[i]).k = "dict"
        /\ Get(LineParams(inLog[i]).d, "name") = PStr("other")
        /\ RepliesTo(i) /= {}

\* A message that carries an id and whose method is none of initialize,
\* tools/list, tools/call.
UnknownMethodWithId(line) ==
    /\ HasId(line)
    /\ \A m \in {"initialize", "tools/list", "tools/call"} :
          ~(LineMethod(line).k = "str" /\ LineMethod(line).s = m)

\* C10: every message read by the server that carries an id and an unknown
\* method gets exactly one reply: an error with code -32601 and the same id.
C10_UnknownMethodNotFound ==
    \A i \in 1..Len(inLog) :
        UnknownMethodWithId(inLog[i]) =>
            /\ Cardinality(RepliesTo(i)) = 1
            /\ \A j \in RepliesTo(i) :
                  /\ IsError(outLog[j].msg, -32601)
                  /\ outLog[j].msg.id = inLog[i].v.d["id"]

\* C10 witness: a message with id "abc" and method "foo" was answered.
C10_Witness ==
    \E i \in 1..Len(inLog) :
        /\ UnknownMethodWithId(inLog[i])
        /\ inLog[i].v.d["id"] = PStr("abc")
        /\ LineMethod(inLog[i]) = PStr("foo")
        /\ RepliesTo(i) /= {}

\* The arguments of a call to the hello tool lack a string "message":
\* arguments is not an object, or has no message, or a message of another type.
BadHelloArguments(p) ==
    LET arguments == Or(Get(p, "arguments"), PDict(EmptyDict))
    IN  \/ arguments.k /= "dict"
        \/ "message" \notin DOMAIN arguments.d
        \/ arguments.d["message"].k /= "str"

\* A tools/call request (it carries an id) whose parameters are malformed:
\* params is not an object, or it names the hello tool with bad arguments.
MalformedCall(line) ==
    /\ HasId(line)
    /\ MethodIs(LineMethod(line), "tools/call")
    /\ \/ Truthy(LineParams(line)) /\ LineParams(line).k /= "dict"
       \/ /\ LineParams(line).k = "dict"
          /\ IsKnownTool(Get(LineParams(line).d, "name"))
          /\ BadHelloArguments(LineParams(line).d)

\* C11 (as stated): every tools/call request read by the server whose
\* parameters are malformed (params not an object, arguments not an object,
\* message missing or not a string) gets exactly one reply: an error with
\* code -32602 and the id of the request.
C11_MalformedParamsRejected ==
    \A i \in 1..Len(inLog) :
        MalformedCall(inLog[i]) =>
            /\ Cardinality(RepliesTo(i)) = 1
            /\ \A j \in RepliesTo(i) :
                  /\ IsError(outLog[j].msg, -32602)
                  /\ outLog[j].msg.id = inLog[i].v.d["id"]

\* A non-blank line that is structurally invalid: text json.loads rejects.
Undecodable(line) == line.kind = "invalid"

\* The messages written in reply to line i, in order.
RepliesSeq(i) ==
    LET js == RepliesTo(i)
    IN  IF js = {} THEN <<>> ELSE <<outLog[CHOOSE j \in js : TRUE].msg>>

\* C12: every structurally invalid line read by the server gets exactly one
\* reply, an error with code -32700 and id null; the server is still running
\* after it, and every line read after it is answered exactly as that line
\* is answered on its own.
C12_ParseErrorThenContinue ==
    \A i \in 1..Len(inLog) :
        Undecodable(inLog[i]) =>
            /\ Cardinality(RepliesTo(i)) = 1
            /\ \A j \in RepliesTo(i) :
                  /\ IsError(outLog[j].msg, -32700)
                  /\ outLog[j].msg.id = None
            /\ ~(i = Len(inLog) /\ spc = "crashed")
            /\ \A k \in (i + 1)..Len(inLog) :
                  /\ Cardinality(RepliesTo(k)) <= 1
                  /\ \E c \in 1..Len(Clock) :
                        RepliesSeq(k) = HandleLine(inLog[k], Clock[c]).out

\* C12 witness: an invalid line was read first, and the tools/list request
\* read after it got its result.
C12_Witness ==
    /\ Len(inLog) = 2
    /\ Undecodable(inLog[1])
    /\ HasId(inLog[2])
    /\ MethodIs(LineMethod(inLog[2]), "tools/list")
    /\ \E j \in RepliesTo(2) : "result" \in DOMAIN outLog[j].msg

\* The planner has failed: ollama could not be imported, the worker raised,
\* or the deadline passed with the worker still running.
PlannerFailed ==
    \/ mpc \notin {"off", "start"} /\ ~ollamaOk
    \/ worker = "raised"
    \/ worker = "running" /\ mpc /= "planning"

\* C13 (as stated): a planner failure or timeout is never fatal to the run
\* of main: no exception escapes main because of it.
C13_PlannerFailureNotFatal ==
    PlannerFailed => (mpc /= "fatal" /\ mainExc = "")

\* The connect failed after the child server had been spawned.
FailedInHandshake == cpc = "failed" /\ Len(wire) > 0

\* C14 (as stated): a failure while the session is handshaking leaves the
\* child process terminated and its streams closed.
C14_HandshakeFailureCleansUp ==
    FailedInHandshake =>
        (child \in {"terminated", "exited"} /\ streams = "closed")

\* The requests that are not initialize.
LaterRequests == { i \in 1..Len(wire) : wire[i].method /= "initialize" }

\* C16: the child is spawned before initialize is sent, initialize is the
\* first request and is sent once, tools/list and tools/call are sent only
\* after initialize was answered, and when the `async with` of a command
\* line has been left (with 0, with 2 for an invalid --json, or by an
\* exception) the transport is closed and the child is not running.
C16_LifecycleOrder ==
    /\ Len(wire) > 0 => (wire[1].method = "initialize" /\ child /= "none")
    /\ LaterRequests \subseteq 2..Len(wire)
    /\ LaterRequests /= {} => held
    /\ cpc \in {"new", "handshaking", "failed"} => LaterRequests = {}
    /\ \A i \in LaterRequests : wire[i].method \in {"tools/list", "tools/call"}
    /\ cliRc \in {"0", "2"} => cpc \in {"exiting", "closed"}
    /\ cpc = "closed" =>
          /\ cliRc \in {"0", "2", "raised"}
          /\ streams = "closed"
          /\ child \in {"terminated", "exited"}

\* C16 witness: a `call` with --json that is not an object returned 2
\* without a request, and the session was shut down all the same.
C16_Witness ==
    /\ cpc = "closed" /\ cliRc = "2" /\ late.n = 0
    /\ wire = <<Request("initialize", "")>>
    /\ streams = "closed" /\ child = "terminated"

\* C17: once the registry is populated no step changes it or scans again
\* (every further ensure_discovered call is a no-op), and the populated
\* registry is the one a single discover_tools call yields.
C17_DiscoveryIdempotent ==
    /\ [][DOMAIN registry /= {} => (registry' = registry /\ scans' = scans)]_vars
    /\ [](DOMAIN registry /= {} =>
            (registry = discover_tools(EmptyDict) /\ scans = 1))

\* C17 witness: main's ensure_discovered call populated the registry, and
\* dispatch_stub then called ensure_discovered again for a hello or git Plan.
C17_Witness ==
    /\ mpc = "dispatching"
    /\ IsTool(PlanTarget)
    /\ DOMAIN registry = {"hello", "git"}
    /\ scans = 1

\* C18 (as stated): a hello invocation made while none of the three candidate
\* files exists returns ok = false with the searched list naming the script,
\* binary and shell-script paths, and spawns nothing.
C18_NotFoundListsSearched ==
    (/\ pc /= "idle"
     /\ TargetIs(PlanTarget, "hello")
     /\ HasInvoker(PlanTarget)
     /\ fsFiles \cap HelloFiles = {}) =>
        /\ pc = "done"
        /\ envelope.result.ok = FALSE
        /\ "searched" \in DOMAIN envelope.result
        /\ envelope.result.searched
              = <<Join(HelloDir, "hello_client.py"), Join(HelloDir, "hello_client"),
                  Join(HelloDir, "hello.sh")>>
        /\ NoChild

\* C19: whenever dispatch_stub has returned, on any path, the envelope has
\* exactly the keys plan and result, and plan is the Plan it was called with.
C19_EnvelopeKeepsPlan ==
    pc = "done" =>
        /\ DOMAIN envelope = {"plan", "result"}
        /\ envelope.plan = plan

\* C19 witness: dispatch returned a failed git invocation (the child exited
\* with a non-zero code) for a Plan that carries arguments.
C19_Witness ==
    /\ pc = "done"
    /\ TargetIs(PlanTarget, "git")
    /\ lastExit = "exitN"
    /\ PlanArgs.k = "dict"
    /\ "cmd" \in DOMAIN PlanArgs.d
    /\ envelope.plan = plan

\* C20 (as stated): a result returned by the hello or git invoker after a
\* spawn was attempted has a command field equal to the argv last passed to
\* the spawn, and a result returned without any spawn has no command field.
C20_CommandIsArgv ==
    (pc = "done" /\ IsTool(PlanTarget)) =>
        /\ spawned /= <<>> =>
              /\ "command" \in DOMAIN envelope.result
              /\ envelope.result.command = spawned[Len(spawned)]
        /\ spawned = <<>> => "command" \notin DOMAIN envelope.result

\* The ok / timed_out / returncode fields of one result record agree.
ResultConsistent(r) ==
    /\ ("timed_out" \in DOMAIN r /\ r.timed_out) => r.ok = FALSE
    /\ r.ok =>
          /\ "timed_out" \in DOMAIN r /\ r.timed_out = FALSE
          /\ "returncode" \in DOMAIN r /\ r.returncode = 0

\* C21: every result an invoker returns (and the failure record the hello
\* invoker nests under error or keeps in last_err) has ok = false when
\* timed_out is true, and timed_out = false and returncode 0 when ok is true.
C21_TimedOutNeverOk ==
    /\ (pc = "done" /\ IsTool(PlanTarget)) =>
          /\ "ok" \in DOMAIN envelope.result
          /\ ResultConsistent(envelope.result)
          /\ ("error" \in DOMAIN envelope.result /\ envelope.result.error.k = "dict")
                => ResultConsistent(envelope.result.error.d)
    /\ last_err.k = "dict" => ResultConsistent(last_err.d)

\* C21 witness: the git invoker returned after its child ran past the
\* deadline, with timed_out = true and ok = false.
C21_Witness ==
    /\ pc = "done"
    /\ TargetIs(PlanTarget, "git")
    /\ lastExit = "timeout"
    /\ envelope.result.timed_out = TRUE
    /\ envelope.result.ok = FALSE

\* The results run(argv) of the git invoker can return for one argv.
IsGitOutcome(r, argv, ts) ==
    \/ \E i \in 1..Len(ChildExits) : r = GitRunExit(argv, ChildExits[i], ts)
    \/ r = GitRunTimeout(argv, ts)
    \/ r = GitRunError(argv)

\* The results the hello invoker can return once tried candidates were
\* spawned: the success of the last one spawned, or, with every candidate
\* spawned, the failure of the last candidate.
IsHelloOutcome(r, cands, tried, ts) ==
    LET cmd == tried[Len(tried)]
    IN  \/ \E i \in 1..Len(ChildExits) :
              ChildExits[i].rc = 0 /\ r = HelloSuccess(cmd, ChildExits[i], ts)
        \/ /\ Len(tried) = Len(cands)
           /\ \/ \E i \in 1..Len(ChildExits) :
                    /\ ChildExits[i].rc /= 0
                    /\ r = HelloAllFailed(PDict(HelloNonZero(cmd, ChildExits[i], ts)))
              \/ r = HelloAllFailed(PDict(HelloTimedOut(cmd, ts)))
              \/ r = HelloAllFailed(PDict(HelloStartError(cmd)))

\* C22: every invocation of a registered invoker, whatever invocations came
\* before it, is decided by its own arguments, the tool files and the timeout
\* setting alone: it raises, returns or builds its commands as the invoker
\* does on first use; it spawns each of its commands at most once, in order,
\* with at most one child running and none left once it has returned; and
\* its result is one that its own last child (exit, deadline, start failure)
\* produces.
C22_FreshInvocation ==
    (pc /= "idle" /\ IsTool(PlanTarget) /\ HasInvoker(PlanTarget)) =>
        LET step == Invoke(registry[PlanTarget.s], PlanArgs)
            hello == TargetIs(PlanTarget, "hello")
        IN  /\ (pc = "raised") = (step.t = "raise")
            /\ step.t = "raise" => (exc = step.exc /\ NoChild)
            /\ step.t = "return" =>
                  (pc = "done" /\ envelope.result = step.result /\ NoChild)
            /\ step.t = "run" =>
                  /\ candidates = IF hello THEN step.argv ELSE <<step.argv>>
                  /\ Len(spawned) <= Len(candidates)
                  /\ spawned = SubSeq(candidates, 1, Len(spawned))
                  /\ live \subseteq {Len(spawned)}
                  /\ pc \in {"done", "hello_try", "git_try"} => live = {}
                  /\ pc = "done" =>
                        /\ spawned /= <<>>
                        /\ IF hello
                           THEN IsHelloOutcome(envelope.result, candidates,
                                               spawned, timeout_sec)
                           ELSE IsGitOutcome(envelope.result, candidates[1],
                                             timeout_sec)

\* C22 witness: the second invocation of the git invoker returned ok = true
\* from a child of its own, after its first invocation had failed.
C22_Witness ==
    /\ nDispatch = 2
    /\ pc = "done"
    /\ TargetIs(PlanTarget, "git")
    /\ "git" \in failed
    /\ Len(spawned) = 1
    /\ envelope.result.ok = TRUE

\* What the caller of plan_with_ollama_timeout has got, in every state of a
\* run of main.
PlannerCallerView ==
    /\ nDispatch > 0 =>
          /\ worker = "returned" /\ slot.exc = ""
          /\ plan = slot.result
          /\ \E i \in 1..Len(PlanTable) : plan = PlanTable[i]
    /\ (worker = "raised" /\ mainExc /= "TimeoutError") =>
          (mainExc = slot.exc /\ mpc = "fatal" /\ nDispatch = 0)
    /\ (worker = "running" /\ mpc /= "planning") => mainExc = "TimeoutError"
    /\ mainExc = "TimeoutError" =>
          (mpc = "fatal" /\ nDispatch = 0 /\ printed = NoEnvelope)
    /\ (mpc = "planning" /\ worker = "running") => ENABLED PlannerDeadline

\* C23: the caller gets the worker's plan only when the worker returned it
\* (never the empty initial result), the worker's exception when the worker
\* raised before the deadline, and TimeoutError when the worker was still
\* running at the deadline; while the worker runs the deadline can always
\* release the caller; and once the caller has TimeoutError no later step,
\* the worker's late finish included, changes what the caller holds.
C23_PlannerRace ==
    /\ []PlannerCallerView
    /\ [][mainExc = "TimeoutError" =>
            UNCHANGED <<hostVars, mpc, mainExc, printed>>]_vars

\* C23 witness: the caller got TimeoutError and the worker returned a hello
\* Plan afterwards.
C23_Witness ==
    /\ mpc = "fatal"
    /\ mainExc = "TimeoutError"
    /\ worker = "returned"
    /\ TargetIs(Get(slot.result, "target"), "hello")
    /\ nDispatch = 0

\* C24 (as stated): whatever lines the server has read, it has not stopped
\* for any reason but end of input, every line read was handled as that
\* line is handled on its own, and no blank line was answered.
C24_LoopEndsOnlyOnEOF ==
    /\ spc \in {"running", "eof"}
    /\ \A i \in 1..Len(inLog) :
          /\ inLog[i].kind = "blank" => RepliesTo(i) = {}
          /\ \E c \in 1..Len(Clock) :
                RepliesSeq(i) = HandleLine(inLog[i], Clock[c]).out

\* The handler of a known method raised while handling this line.
HandlerRaised(line) ==
    /\ IsObject(line)
    /\ \E m \in {"initialize", "tools/list", "tools/call"} :
          MethodIs(LineMethod(line), m)
    /\ RouteMethod(LineMethod(line), Get(line.v.d, "id"), LineParams(line),
                   Clock[1]).t = "raise"

\* C25: every line read by the server whose known method's handler raised
\* got exactly one reply: an error with code -32000 and the id of the
\* request (null when it carries none), and no result.
C25_FailureBecomesServerError ==
    \A i \in 1..Len(inLog) :
        HandlerRaised(inLog[i]) =>
            /\ Cardinality(RepliesTo(i)) = 1
            /\ \A j \in RepliesTo(i) :
                  /\ IsError(outLog[j].msg, -32000)
                  /\ outLog[j].msg.id = Get(inLog[i].v.d, "id")

\* C25 witness: a tools/call with id 1 whose params is a list made the
\* handler raise and was answered.
C25_Witness ==
    \E i \in 1..Len(inLog) :
        /\ HandlerRaised(inLog[i])
        /\ Get(inLog[i].v.d, "id") = PInt(1)
        /\ LineParams(inLog[i]) = PList(<<"x">>)
        /\ RepliesTo(i) /= {}

\* C26 (as stated): the registry only ever holds the keys hello and git, a
\* key is present only if that tool's directory exists, and a step changes
\* the registry only by filling the empty registry with what one
\* discover_tools scan yields.
C26_RegistryOnlyFromDiscovery ==
    /\ [](/\ DOMAIN registry \subseteq {"hello", "git"}
          /\ "hello" \in DOMAIN registry => IsDir(HelloDir)
          /\ "git" \in DOMAIN registry => IsDir(GitDir))
    /\ [][registry' /= registry =>
            (registry = EmptyDict /\ registry' = discover_tools(EmptyDict))]_vars

\* The mock result of each pseudo-target, as the spec lists them.
MockResult(name, args) ==
    CASE name = "cve" -> [affected |-> FALSE, checked |-> args]
      [] name = "pfcm" -> [status |-> "ok", changes |-> <<"PCD:X=1">>]
      [] name = "product_options" ->
            [status |-> "ok", message |-> "product options queried", args |-> args]
      [] name = "inspector" ->
            [status |-> "ok", checks |-> <<"env", "network", "permissions">>]

\* The Plan names one of the four pseudo-targets.
PseudoTarget(p) ==
    /\ Get(p, "target").k = "str"
    /\ Get(p, "target").s \in {"cve", "pfcm", "product_options", "inspector"}

\* C27: a dispatch_stub call for a pseudo-target returns in one step with
\* that target's mock result, whatever the args, and the step leaves the
\* registry and the scan count as they were and spawns nothing.
C27_BuiltinsTouchNothing ==
    /\ [](pc /= "idle" /\ PseudoTarget(plan) =>
            /\ pc = "done"
            /\ exc = ""
            /\ envelope.result = MockResult(PlanTarget.s, PlanArgs)
            /\ NoChild)
    /\ [][(pc = "idle" /\ pc' /= "idle" /\ PseudoTarget(plan')) =>
            (registry' = registry /\ scans' = scans)]_vars

\* C27 witness: product_options was dispatched with args that are not a
\* mapping while the registry was still empty and undiscovered, although a
\* hello tool directory exists.
C27_Witness ==
    /\ pc = "done"
    /\ TargetIs(PlanTarget, "product_options")
    /\ PlanArgs = NonMapping
    /\ registry = EmptyDict /\ scans = 0
    /\ IsDir(HelloDir)

\* The launch strategy of the documented priority for these inputs.
ExpectedCommand ==
    IF srv.cmd /= "" THEN srv.cmd
    ELSE IF "uvx" \in srv.which THEN "uvx"
    ELSE IF "uv" \in srv.which THEN "uv"
    ELSE IF "python" \in srv.which THEN "python"
    ELSE "mcp-server-git"

\* The positions of a repository argument in an argument list.
RepositoryArgs(a) == { i \in 1..Len(a) : a[i] \in {"--repository", "-r"} }

\* C28 (as stated): once the launch parameters are built, the command is the
\* one the priority picks, the argument list holds a repository argument
\* exactly once, uvx is asked for mcp-server-git, uv for run mcp-server-git
\* and an auto-detected python for -m mcp_server_git.
C28_LaunchStrategy ==
    cpc \notin {"off", "new"} =>
        /\ launch.command = ExpectedCommand
        /\ Cardinality(RepositoryArgs(launch.args)) = 1
        /\ launch.command = "uvx" => launch.args[1] = "mcp-server-git"
        /\ launch.command = "uv" =>
              SubSeq(launch.args, 1, 2) = <<"run", "mcp-server-git">>
        /\ (launch.command = "python" /\ srv.cmd = "") =>
              SubSeq(launch.args, 1, 2) = <<"-m", "mcp_server_git">>

=============================================================================
